---- MODULE Spec2Model ----
(***************************************************************************)
(* The multi-probe identity lookup of origin_hackathon_backend.            *)
(*                                                                         *)
(* Email path    (src/backend.py): check_email_trio spawns one             *)
(*   launch_module_check task per holehe check function in a trio nursery, *)
(*   every task appends to one shared list, the list is sorted by name and *)
(*   format_results turns it into the response.                            *)
(* Username path (src/username_tracker/services/maigret_service.py):       *)
(*   _load_sites filters the maigret site database, maigret.search runs    *)
(*   the checks and maigret_search_username partitions what it returns.    *)
(*                                                                         *)
(* The check functions (holehe) and maigret.search are third-party code:   *)
(* what they do is an input of the model, chosen nondeterministically.     *)
(* Python's None / Optional value is a sequence of length 0 / 1.           *)
(***************************************************************************)
EXTENDS Integers, Sequences, FiniteSets, TLC

\* Number of entries of the probe catalog (holehe modules / maigret sites).
MaxProbes == 3

\* Probe names, in ascending string order (the order Python's sort uses).
SiteNames == <<"adobe", "github", "imgur", "spotify", "xing">>

Catalog == {SiteNames[i] : i \in 1..MaxProbes}

\* Position of a name in the ascending string order.
Rank(name) == CHOOSE i \in 1..Len(SiteNames) : SiteNames[i] = name

\* backend.py DOMAIN_MAP, restricted to the names of the catalog.
DOMAIN_MAP ==
    ("adobe" :> "adobe.com") @@ ("github" :> "github.com") @@ ("spotify" :> "spotify.com")

\* The domain label a check function writes into its own result.
ProbeDomain ==
    ("adobe" :> "adobe.com") @@ ("github" :> "github.com") @@ ("imgur" :> "imgur.com")
    @@ ("spotify" :> "spotify.com") @@ ("xing" :> "xing.com")

\* get_check_functions: names whose function repr contains an excluded word.
exclude_list == {"adobe", "mail_ru", "odnoklassniki", "samsung"}

\* str(module) of a plain function: "<function NAME at 0x...>", as its words.
FunctionRepr(p) == <<"<function", p, "at", "0x">>

VARIABLES
    path,         \* "email" (POST /api/check-email), "username" (GET /maigret/search)
                  \* or "batch" (POST /api/batch-check)
    pc,           \* position of the lookup
    websites,     \* email: the check functions get_check_functions resolved
    status,       \* email: per check function, where its task is
    results,      \* email: the shared results list
    elapsed,      \* email: `timeout` seconds have passed since the batch started
    only_found,   \* email: request.only_found, as a 0/1 sequence
    client,       \* email: the batch's httpx.AsyncClient: "none", "open" or "closed"
    response,     \* the value returned to the caller, as a 0/1 sequence
    site_list,    \* username: the explicit names of the request
    sites,        \* username: the site dict _load_sites returned (ranked order)
    raw_results,  \* username: the dict maigret.search returned (insertion order)
    emails,       \* batch: the request's list of addresses
    lookups,      \* batch: the lookups that have completed, in the order they ran
    batch_results \* batch: the `results` dict of batch_check_emails

vars == <<path, pc, websites, status, results, elapsed, only_found, client, response,
          site_list, sites, raw_results, emails, lookups, batch_results>>

emailVars == <<websites, status, results, elapsed, only_found, client>>
userVars == <<site_list, sites, raw_results>>
batchVars == <<emails, lookups, batch_results>>

InFlight == {"pending", "appended", "stuck"}
Finished == {"returned", "raised"}

Init ==
    /\ path \in {"email", "username", "batch"}
    /\ pc = "start"
    /\ websites = {}
    /\ status = [p \in Catalog |-> "none"]
    /\ results = <<>>
    /\ elapsed = FALSE
    /\ only_found = <<>>
    /\ client = "none"
    /\ response = <<>>
    /\ site_list = {}
    /\ sites = <<>>
    /\ raw_results = <<>>
    /\ emails = <<>>
    /\ lookups = <<>>
    /\ batch_results = <<>>

----------------------------------------------------------------------------
(* Email path                                                              *)

\* get_check_functions: every loaded check function, minus the excluded ones
\* when exclude_password_recovery is set.
get_check_functions(modules, exclude_password_recovery) ==
    IF exclude_password_recovery
    THEN {m \in modules : ~(\E w \in 1..Len(FunctionRepr(m)) : FunctionRepr(m)[w] \in exclude_list)}
    ELSE modules

\* The result a check function appends for itself.
OwnResult(p, exists) ==
    [name |-> p, domain |-> ProbeDomain[p], rateLimit |-> FALSE, error |-> FALSE,
     exists |-> exists]

\* launch_module_check, except branch: the name parsed out of str(module).
ModuleName(p) ==
    IF FunctionRepr(p)[1] = "<function" THEN FunctionRepr(p)[2] ELSE "unknown"

\* DOMAIN_MAP.get(name, "unknown")
DomainLabel(name) ==
    IF name \in DOMAIN DOMAIN_MAP THEN DOMAIN_MAP[name] ELSE "unknown"

\* Variant of launch_module_check whose except branch swallows the failure
\* (`except Exception: pass`).
launch_module_check_swallow(p, res) == res

\* Variant of launch_module_check that rebinds the list to the errored outcome
\* instead of appending to it.
launch_module_check_overwrite(p, res) ==
    <<[name |-> ModuleName(p), domain |-> DomainLabel(ModuleName(p)),
       rateLimit |-> FALSE, error |-> TRUE, exists |-> FALSE]>>

\* launch_module_check when module(email, client, results) raised: the list after
\* the except branch ran.
launch_module_check(p, res) ==
    Append(res, [name |-> ModuleName(p), domain |-> DomainLabel(ModuleName(p)),
                 rateLimit |-> FALSE, error |-> TRUE, exists |-> FALSE])

\* results.sort(key=lambda x: x.get('name', '')): a stable sort by name, that
\* is, for each name in ascending order the entries of that name in list order.
RECURSIVE SortFrom(_, _)
SortFrom(s, k) ==
    IF k > Len(SiteNames) THEN <<>>
    ELSE SelectSeq(s, LAMBDA r : Rank(r.name) = k) \o SortFrom(s, k + 1)

SortByName(s) == SortFrom(s, 1)

\* format_results: the loop over raw_results.
RECURSIVE DetailedResults(_, _)
DetailedResults(raw, onlyFound) ==
    IF raw = <<>> THEN <<>>
    ELSE LET r == Head(raw)
             rest == DetailedResults(Tail(raw), onlyFound)
         IN  IF r.exists
             THEN <<[platform |-> r.domain, name |-> r.name, exists |-> TRUE]>> \o rest
             ELSE IF ~onlyFound
                  THEN <<[platform |-> r.domain, name |-> r.name, exists |-> FALSE]>> \o rest
                  ELSE rest

RECURSIVE PlatformsFound(_)
PlatformsFound(raw) ==
    IF raw = <<>> THEN <<>>
    ELSE IF Head(raw).exists
         THEN <<Head(raw).domain>> \o PlatformsFound(Tail(raw))
         ELSE PlatformsFound(Tail(raw))

\* Variant of format_results that leaves errored outcomes out of detailed_results.
format_results_skip_errored(raw, onlyFound) ==
    LET ok == SelectSeq(raw, LAMBDA r : ~r.error)
    IN  [success |-> TRUE,
         total_checked |-> Len(raw),
         found_count |-> Len(PlatformsFound(raw)),
         platforms_found |-> PlatformsFound(raw),
         detailed_results |-> IF ~onlyFound THEN <<DetailedResults(ok, onlyFound)>> ELSE <<>>]

\* Variant of format_results with `detailed_results or None`: an empty list
\* becomes None.
format_results_falsy_detailed(raw, onlyFound) ==
    [success |-> TRUE,
     total_checked |-> Len(raw),
     found_count |-> Len(PlatformsFound(raw)),
     platforms_found |-> PlatformsFound(raw),
     detailed_results |-> IF ~onlyFound /\ DetailedResults(raw, onlyFound) # <<>>
                          THEN <<DetailedResults(raw, onlyFound)>> ELSE <<>>]

\* Variant of format_results that counts total_checked from the entries it kept.
format_results_count_kept(raw, onlyFound) ==
    [success |-> TRUE,
     total_checked |-> Len(DetailedResults(raw, onlyFound)),
     found_count |-> Len(PlatformsFound(raw)),
     platforms_found |-> PlatformsFound(raw),
     detailed_results |-> IF ~onlyFound THEN <<DetailedResults(raw, onlyFound)>> ELSE <<>>]

\* format_results: the EmailCheckResponse.
format_results(raw, onlyFound) ==
    [success |-> TRUE,
     total_checked |-> Len(raw),
     found_count |-> Len(PlatformsFound(raw)),
     platforms_found |-> PlatformsFound(raw),
     detailed_results |-> IF ~onlyFound THEN <<DetailedResults(raw, onlyFound)>> ELSE <<>>]

\* check_email_trio with an address is_valid_email rejects: ValueError.
InvalidEmail ==
    /\ path = "email" /\ pc = "start"
    /\ pc' = "invalid"
    /\ UNCHANGED <<path, response>> /\ UNCHANGED emailVars /\ UNCHANGED userVars
    /\ UNCHANGED batchVars

\* check_email_trio up to the end of the for loop: the check functions are
\* resolved, results = [], the client is opened and every task is spawned.
StartBatch ==
    /\ path = "email" /\ pc = "start"
    /\ \E modules \in SUBSET Catalog, exclude_password_recovery \in BOOLEAN :
          LET w == get_check_functions(modules, exclude_password_recovery)
          IN  /\ websites' = w
              /\ status' = [p \in Catalog |-> IF p \in w THEN "pending" ELSE "none"]
    /\ results' = <<>>
    /\ client' = "open"
    /\ pc' = "running"
    /\ UNCHANGED <<path, elapsed, only_found, response>> /\ UNCHANGED userVars
    /\ UNCHANGED batchVars

\* A task runs from the moment it is spawned until it finishes, wherever its
\* parent is.
\* A check function appends its own result and keeps running.
ProbeAppends ==
    /\ pc \in {"running", "returned", "done"}
    /\ \E p \in websites, exists \in BOOLEAN :
          /\ status[p] = "pending"
          /\ results' = Append(results, OwnResult(p, exists))
          /\ status' = [status EXCEPT ![p] = "appended"]
    /\ UNCHANGED <<path, pc, websites, elapsed, only_found, client, response>> /\ UNCHANGED userVars
    /\ UNCHANGED batchVars

\* A check function returns (after appending, or without having appended).
ProbeReturns ==
    /\ pc \in {"running", "returned", "done"}
    /\ \E p \in websites :
          /\ status[p] \in {"pending", "appended"}
          /\ status' = [status EXCEPT ![p] = "returned"]
    /\ UNCHANGED <<path, pc, websites, results, elapsed, only_found, client, response>>
    /\ UNCHANGED userVars
    /\ UNCHANGED batchVars

\* A check function raises (before or after appending): launch_module_check's
\* except branch runs.
ProbeRaises ==
    /\ pc \in {"running", "returned", "done"}
    /\ \E p \in websites :
          /\ status[p] \in {"pending", "appended"}
          /\ results' = launch_module_check(p, results)
          /\ status' = [status EXCEPT ![p] = "raised"]
    /\ UNCHANGED <<path, pc, websites, elapsed, only_found, client, response>> /\ UNCHANGED userVars
    /\ UNCHANGED batchVars

\* A check function enters a wait that never ends.
ProbeHangs ==
    /\ pc \in {"running", "returned", "done"}
    /\ \E p \in websites :
          /\ status[p] = "pending"
          /\ status' = [status EXCEPT ![p] = "stuck"]
    /\ UNCHANGED <<path, pc, websites, results, elapsed, only_found, client, response>>
    /\ UNCHANGED userVars
    /\ UNCHANGED batchVars

\* `timeout` seconds pass while the nursery is open.  check_email_trio hands
\* `timeout` to httpx.AsyncClient only (a per-request timeout, which makes a
\* request raise inside its check function): nothing in the batch reads the clock.
DeadlineElapses ==
    /\ pc = "running" /\ ~elapsed
    /\ elapsed' = TRUE
    /\ UNCHANGED <<path, pc, websites, status, results, only_found, client, response>>
    /\ UNCHANGED userVars
    /\ UNCHANGED batchVars

\* Variant of NurseryDone for tasks started without a nursery to wait for them.
NurseryDone_no_wait(w, st) == TRUE

\* `async with trio.open_nursery()` leaves its block only when every task it
\* started has finished.
NurseryDone(w, st) == \A p \in w : st[p] \in Finished

\* The nursery block exits once every task has finished; the client is closed,
\* the list is sorted and returned.
CheckEmailReturn ==
    /\ pc = "running"
    /\ NurseryDone(websites, status)
    /\ results' = SortByName(results)
    /\ client' = "closed"
    /\ pc' = "returned"
    /\ UNCHANGED <<path, websites, status, elapsed, only_found, response>>
    /\ UNCHANGED userVars
    /\ UNCHANGED batchVars

\* check_email_post: format_results on what check_email_on_platforms returned.
FormatResults ==
    /\ pc = "returned"
    /\ \E f \in BOOLEAN :
          /\ only_found' = <<f>>
          /\ response' = <<format_results(results, f)>>
    /\ pc' = "done"
    /\ UNCHANGED <<path, websites, status, results, elapsed, client>> /\ UNCHANGED userVars
    /\ UNCHANGED batchVars

----------------------------------------------------------------------------
(* Username path                                                           *)

\* The maigret site database (data.json): per site its tags and its rank.
SiteTags(s) == IF s = "github" THEN {"coding"} ELSE {"social"}

AlexaRank ==
    ("adobe" :> 30) @@ ("github" :> 10) @@ ("imgur" :> 20) @@ ("spotify" :> 5)
    @@ ("xing" :> 40)

\* sorted(..., key=alexa_rank) of a set of sites.
RECURSIVE RankedSeq(_)
RankedSeq(S) ==
    IF S = {} THEN <<>>
    ELSE LET first == CHOOSE s \in S : \A t \in S : AlexaRank[s] <= AlexaRank[t]
         IN  <<first>> \o RankedSeq(S \ {first})

\* _load_sites: db.ranked_sites_dict(top, tags, names, disabled=False,
\* id_type="username") filters the database by tags and names (an empty filter
\* keeps everything) and keeps the `top` best ranked sites.
_load_sites(top_sites, tags, names) ==
    LET kept == {s \in Catalog : /\ (tags = {} \/ SiteTags(s) \cap tags # {})
                                 /\ (names = {} \/ s \in names)}
        ranked == RankedSeq(kept)
    IN  SubSeq(ranked, 1, IF Len(ranked) < top_sites THEN Len(ranked) ELSE top_sites)

\* What site_data["status"] can be: None, or a check result whose status is one of these.
MaigretStatus == {<<>>, <<"Claimed">>, <<"Available">>, <<"Unknown">>}

\* str(status_str).lower()
Lower(st) ==
    CASE st = "Claimed" -> "claimed"
      [] st = "Available" -> "available"
      [] st = "Unknown" -> "unknown"
      [] OTHER -> st

\* maigret_search_username: the loop that builds sites_found / sites_not_found.
IsFound(d) == d.status # <<>> /\ Lower(d.status[1]) \in {"claimed", "found"}

Entry(d) == [site |-> d.site, status |-> d.status]

RECURSIVE SitesFound(_)
SitesFound(raw) ==
    IF raw = <<>> THEN <<>>
    ELSE IF IsFound(Head(raw))
         THEN <<Entry(Head(raw))>> \o SitesFound(Tail(raw))
         ELSE SitesFound(Tail(raw))

RECURSIVE SitesNotFound(_)
SitesNotFound(raw) ==
    IF raw = <<>> THEN <<>>
    ELSE IF IsFound(Head(raw))
         THEN SitesNotFound(Tail(raw))
         ELSE <<Entry(Head(raw))>> \o SitesNotFound(Tail(raw))

\* maigret_search_username: the returned dict.
maigret_search_username(raw) ==
    [sites_found |-> SitesFound(raw),
     sites_not_found |-> SitesNotFound(raw),
     total_sites_checked |-> Len(raw)]

\* A name the site database does not hold.
UnknownSite == "nosuchsite"

\* maigret_search_username, line 51: sites = _load_sites(...).
LoadSites ==
    /\ path = "username" /\ pc = "start"
    /\ \E names \in SUBSET (Catalog \cup {UnknownSite}),
          tags \in SUBSET {"coding", "gaming"},
          top_sites \in {1, MaxProbes} :
          /\ site_list' = names
          /\ sites' = _load_sites(top_sites, tags, names)
    /\ pc' = "searching"
    /\ UNCHANGED <<path, response, raw_results>> /\ UNCHANGED emailVars
    /\ UNCHANGED batchVars

\* await maigret.search(site_dict=sites, ...): one entry per site of site_dict,
\* inserted in the order the checks completed.
MaigretSearch ==
    /\ pc = "searching"
    /\ \E order \in [1..Len(sites) -> 1..Len(sites)],
          st \in [1..Len(sites) -> MaigretStatus] :
          /\ \A i, j \in 1..Len(sites) : order[i] = order[j] => i = j
          /\ raw_results' = [i \in 1..Len(sites) |-> [site |-> sites[order[i]], status |-> st[i]]]
    /\ pc' = "searched"
    /\ UNCHANGED <<path, response, site_list, sites>> /\ UNCHANGED emailVars
    /\ UNCHANGED batchVars

\* maigret_search_username, lines 73-106.
BuildUsernameResult ==
    /\ pc = "searched"
    /\ response' = <<maigret_search_username(raw_results)>>
    /\ pc' = "done"
    /\ UNCHANGED path /\ UNCHANGED emailVars /\ UNCHANGED userVars
    /\ UNCHANGED batchVars

----------------------------------------------------------------------------
(* Batch path: batch_check_emails                                          *)

\* Most addresses one batch request may hold.
MaxEmails == 5

\* The addresses requests are made of.
Emails == {"a@example.com", "b@example.com"}

\* The request bodies: every list of up to MaxEmails + 1 addresses.
EmailLists == UNION {[1..n -> Emails] : n \in 0..(MaxEmails + 1)}

\* What check_email_on_platforms can return to the batch loop.
RawChoices ==
    {<<OwnResult("adobe", FALSE)>>,
     <<OwnResult("adobe", FALSE), OwnResult("github", TRUE)>>}

\* Variant of TooMany that rejects a list of exactly MaxEmails addresses.
TooMany_off_by_one(es) == Len(es) >= MaxEmails

\* batch_check_emails: len(emails) > 5
TooMany(es) == Len(es) > MaxEmails

\* batch_check_emails: the entry of a lookup that returned raw.
SuccessEntry(raw) ==
    [success |-> TRUE, platforms_found |-> PlatformsFound(raw),
     count |-> Len(PlatformsFound(raw))]

\* batch_check_emails: the entry of a lookup that raised.
FailureEntry ==
    [success |-> FALSE, error |-> "str(e)", platforms_found |-> <<>>, count |-> 0]

\* results[email] = entry
SetItem(d, k, v) == [x \in (DOMAIN d) \cup {k} |-> IF x = k THEN v ELSE d[x]]

\* batch_check_emails with more than 5 addresses: HTTP 400, nothing else runs.
BatchRejected ==
    /\ path = "batch" /\ pc = "start"
    /\ \E es \in EmailLists : TooMany(es) /\ emails' = es
    /\ pc' = "rejected"
    /\ UNCHANGED <<path, response, lookups, batch_results>>
    /\ UNCHANGED emailVars /\ UNCHANGED userVars

\* batch_check_emails with at most 5 addresses: results = {} and the loop starts.
BatchAccepted ==
    /\ path = "batch" /\ pc = "start"
    /\ \E es \in EmailLists : ~TooMany(es) /\ emails' = es
    /\ batch_results' = <<>>
    /\ pc' = "looping"
    /\ UNCHANGED <<path, response, lookups>>
    /\ UNCHANGED emailVars /\ UNCHANGED userVars

\* The loop takes the next address and awaits check_email_on_platforms.
BeginLookup ==
    /\ path = "batch" /\ pc = "looping"
    /\ Len(lookups) < Len(emails)
    /\ pc' = "lookup"
    /\ UNCHANGED <<path, response>> /\ UNCHANGED batchVars
    /\ UNCHANGED emailVars /\ UNCHANGED userVars

\* check_email_on_platforms returns: the try branch stores the entry.
LookupReturns ==
    /\ path = "batch" /\ pc = "lookup"
    /\ \E raw \in RawChoices :
          LET email == emails[Len(lookups) + 1]
          IN  /\ batch_results' = SetItem(batch_results, email, SuccessEntry(raw))
              /\ lookups' = Append(lookups, [email |-> email, raised |-> FALSE,
                                             entry |-> SuccessEntry(raw)])
    /\ pc' = "looping"
    /\ UNCHANGED <<path, response, emails>>
    /\ UNCHANGED emailVars /\ UNCHANGED userVars

\* check_email_on_platforms raises: the except branch stores the failure entry.
LookupRaises ==
    /\ path = "batch" /\ pc = "lookup"
    /\ LET email == emails[Len(lookups) + 1]
       IN  /\ batch_results' = SetItem(batch_results, email, FailureEntry)
           /\ lookups' = Append(lookups, [email |-> email, raised |-> TRUE,
                                          entry |-> FailureEntry])
    /\ pc' = "looping"
    /\ UNCHANGED <<path, response, emails>>
    /\ UNCHANGED emailVars /\ UNCHANGED userVars

\* The loop is over: the response is returned.
BatchReturn ==
    /\ path = "batch" /\ pc = "looping"
    /\ Len(lookups) = Len(emails)
    /\ response' = <<[success |-> TRUE, total_emails |-> Len(emails),
                      results |-> batch_results]>>
    /\ pc' = "done"
    /\ UNCHANGED path /\ UNCHANGED batchVars
    /\ UNCHANGED emailVars /\ UNCHANGED userVars

----------------------------------------------------------------------------
Next ==
    \/ InvalidEmail
    \/ StartBatch
    \/ ProbeAppends
    \/ ProbeReturns
    \/ ProbeRaises
    \/ ProbeHangs
    \/ DeadlineElapses
    \/ CheckEmailReturn
    \/ FormatResults
    \/ LoadSites
    \/ MaigretSearch
    \/ BuildUsernameResult
    \/ BatchRejected
    \/ BatchAccepted
    \/ BeginLookup
    \/ LookupReturns
    \/ LookupRaises
    \/ BatchReturn

Spec == Init /\ [][Next]_vars

----------------------------------------------------------------------------
(* Properties                                                              *)

Sealed == path = "email" /\ pc \in {"returned", "done"}

\* Number of entries of a list whose exists flag is b.
CountExists(seq, b) == Cardinality({i \in 1..Len(seq) : seq[i].exists = b})

\* A list of names is in ascending string order.
IsAscending(names) ==
    \A i, j \in 1..Len(names) : i < j => Rank(names[i]) <= Rank(names[j])

\* C1: in every result returned with found-only unset, total_checked equals
\* the number of returned found entries plus the number of returned not-found
\* entries, errored probes being counted among the not-found ones
\* (email: format_results with only_found = false; username:
\* maigret_search_username).
C1_TotalIsFoundPlusNotFound ==
    pc = "done" =>
        IF path = "email"
        THEN only_found = <<FALSE>> =>
                 /\ response[1].detailed_results # <<>>
                 /\ response[1].total_checked =
                        CountExists(response[1].detailed_results[1], TRUE)
                        + CountExists(response[1].detailed_results[1], FALSE)
                 /\ CountExists(response[1].detailed_results[1], TRUE)
                        = response[1].found_count
        ELSE path = "username" =>
                 response[1].total_sites_checked =
                     Len(response[1].sites_found) + Len(response[1].sites_not_found)

\* C1 witness: a full-mode email result that holds a found entry and the entry
\* of a probe that raised.
C1_Witness ==
    /\ pc = "done" /\ path = "email" /\ only_found = <<FALSE>>
    /\ \E i \in 1..Len(results) : results[i].error
    /\ \E i \in 1..Len(results) : results[i].exists

\* C2: after check_email_trio and format_results, total_checked equals the
\* number of check functions get_check_functions resolved, whatever each of
\* them did.
C2_TotalIsResolvedCount ==
    (pc = "done" /\ path = "email") =>
        response[1].total_checked = Cardinality(websites)

\* The outcomes recorded under name p, in list order.
RecordsOf(p) == SelectSeq(results, LAMBDA r : r.name = p)

C4_DeadlineCancelsInFlight ==
    elapsed =>
        \A p \in websites :
            /\ status[p] \notin InFlight
            /\ \E i \in 1..Len(results) : results[i].name = p

\* C5: a batch never waits forever: in every state the lookup has returned to
\* its caller, or it can still take a step.
C5_BatchNeverWaitsForever ==
    pc \in {"done", "invalid", "rejected"} \/ ENABLED Next

\* C6: the entries of the returned result are ordered by probe name ascending,
\* whatever the order in which the outcomes arrived.
C6_OrderedByName ==
    pc = "done" =>
        IF path = "email"
        THEN IsAscending([i \in 1..Len(results) |-> results[i].name])
        ELSE path = "username" =>
                 /\ IsAscending([i \in 1..Len(response[1].sites_found) |->
                                    response[1].sites_found[i].site])
                 /\ IsAscending([i \in 1..Len(response[1].sites_not_found) |->
                                    response[1].sites_not_found[i].site])

\* C7: in a sealed batch every resolved probe's name appears in at most one
\* outcome.
C7_NameAtMostOnce ==
    Sealed =>
        \A p \in websites :
            Cardinality({i \in 1..Len(results) : results[i].name = p}) <= 1

\* C8: when site_list holds a name the catalog does not hold, the lookup fails
\* before any probe runs: maigret.search is never called and no result is
\* returned.
C8_UnknownNameFailsLookup ==
    (path = "username" /\ UnknownSite \in site_list) =>
        pc \notin {"searched", "done"}

\* C9: a lookup whose probe set resolved to nothing runs no probe, can always
\* go on to return, and returns total_checked = 0 with an empty found list and
\* (found-only unset) an empty, present not-found list.
C9_EmptyBatchIsValid ==
    /\ (path = "email" /\ pc = "running" /\ websites = {}) =>
           (results = <<>> /\ ENABLED CheckEmailReturn)
    /\ (path = "email" /\ pc \in {"returned", "done"} /\ websites = {}) =>
           (results = <<>> /\ \A p \in Catalog : status[p] = "none")
    /\ (path = "email" /\ pc = "done" /\ websites = {}) =>
           /\ response[1].success
           /\ response[1].total_checked = 0
           /\ response[1].found_count = 0
           /\ response[1].platforms_found = <<>>
           /\ only_found = <<FALSE>> => response[1].detailed_results = << <<>> >>
    /\ (path = "username" /\ pc = "searching" /\ sites = <<>>) => ENABLED MaigretSearch
    /\ (path = "username" /\ pc \in {"searched", "done"} /\ sites = <<>>) =>
           raw_results = <<>>
    /\ (path = "username" /\ pc = "done" /\ sites = <<>>) =>
           response[1] = [sites_found |-> <<>>, sites_not_found |-> <<>>,
                          total_sites_checked |-> 0]

\* C9 witness: an email lookup with no check function resolved has returned
\* its full-mode result.
C9_Witness ==
    /\ path = "email" /\ pc = "done" /\ websites = {}
    /\ only_found = <<FALSE>>

\* The entries with exists = true of a response's detailed_results (none when
\* detailed_results is None).
FoundEntries(r) ==
    IF r.detailed_results = <<>> THEN <<>>
    ELSE SelectSeq(r.detailed_results[1], LAMBDA e : e.exists)

\* C10 (as stated): on a sealed batch, format_results with found-only set
\* returns the same found outcomes and the same total_checked as with
\* found-only unset, and no not-found entries.
C10_FoundOnlyKeepsFoundOutcomes ==
    Sealed =>
        LET a == format_results(results, TRUE)
            b == format_results(results, FALSE)
        IN  /\ a.total_checked = b.total_checked
            /\ FoundEntries(a) = FoundEntries(b)
            /\ CountExists(IF a.detailed_results = <<>> THEN <<>>
                           ELSE a.detailed_results[1], FALSE) = 0

\* C10 (as amended): on a sealed batch, format_results with found-only set
\* differs from found-only unset only in detailed_results, which is absent
\* (None) instead of holding one entry per outcome: the not-found entries and
\* the detail entries of the found outcomes are both omitted, while
\* total_checked, found_count and platforms_found are the same in both modes.
C10_FoundOnlyDropsDetails ==
    Sealed =>
        LET a == format_results(results, TRUE)
            b == format_results(results, FALSE)
        IN  /\ a.total_checked = b.total_checked
            /\ a.total_checked = Len(results)
            /\ a.found_count = b.found_count
            /\ a.platforms_found = b.platforms_found
            /\ a.success = b.success
            /\ a.detailed_results = <<>>
            /\ b.detailed_results # <<>>
            /\ Len(b.detailed_results[1]) = Len(results)
            /\ Len(FoundEntries(b)) = a.found_count

\* C10 witness: a sealed batch that holds a found and a not-found outcome.
C10_Witness ==
    /\ Sealed
    /\ \E i \in 1..Len(results) : results[i].exists
    /\ \E i \in 1..Len(results) : ~results[i].exists

\* C11: a batch holds one transport client from its start on; the client is
\* released once the batch has left its nursery, it is released only after
\* every probe has stopped, no probe is in flight after the release, and no
\* exit path (deadline expiry included) leaves the batch ended with its client
\* still open.
C11_ClientReleasedOnEveryExit ==
    path = "email" =>
        /\ pc = "running" => client = "open"
        /\ pc \in {"returned", "done"} => client = "closed"
        /\ client = "closed" => \A p \in websites : status[p] \notin InFlight
        /\ client = "open" => ENABLED Next

\* C12: the outcome list is sorted, counted and returned only after every
\* probe of the batch has finished; nothing is appended after that: the list
\* the caller holds is the sorted list of what the probes recorded, and the
\* response is computed from exactly that list.
C12_ReadOnlyAfterSealed ==
    Sealed =>
        /\ \A p \in websites : status[p] \in Finished
        /\ \A p \in websites :
              /\ status[p] = "raised" =>
                    Len(SelectSeq(RecordsOf(p), LAMBDA r : r.error)) = 1
              /\ Len(RecordsOf(p)) <= 2
        /\ results = SortByName(results)
        /\ pc = "done" => response[1].total_checked = Len(results)
        /\ pc = "done" => response[1] = format_results(results, only_found[1])

\* C12 witness: a batch of at least two probes, one of which returned and one
\* of which raised, has handed its list to the caller.
C12_Witness ==
    /\ Sealed /\ pc = "done"
    /\ \E p, q \in websites : status[p] = "returned" /\ status[q] = "raised"
    /\ Len(results) >= 2

C14_ErroredDistinguishable ==
    (pc = "done" /\ path = "email" /\ only_found = <<FALSE>>) =>
        \A i \in 1..Len(results) :
            results[i].error =>
                response[1].detailed_results[1][i]
                    # DetailedResults(<<OwnResult(results[i].name, FALSE)>>, FALSE)[1]

\* The position of the last lookup of address e.
LastLookup(e) == CHOOSE i \in 1..Len(lookups) :
                     /\ lookups[i].email = e
                     /\ \A j \in (i + 1)..Len(lookups) : lookups[j].email # e

\* C15: batch_check_emails rejects a list of more than 5 addresses before any
\* lookup runs; with at most 5 the lookups run one at a time in list order, a
\* lookup that raises is recorded with success = false and count = 0 and the
\* loop goes on to the next address, and the response has total_emails = the
\* length of the list and one entry per distinct address (the entry of that
\* address's last lookup).
C15_BatchCheckEmails ==
    path = "batch" =>
        /\ Len(emails) > 5 => (pc = "rejected" /\ lookups = <<>> /\ response = <<>>)
        /\ pc = "rejected" => Len(emails) > 5
        /\ Len(lookups) <= Len(emails)
        /\ \A i \in 1..Len(lookups) :
              /\ lookups[i].email = emails[i]
              /\ lookups[i].raised =>
                    /\ ~lookups[i].entry.success
                    /\ lookups[i].entry.count = 0
                    /\ lookups[i].entry.platforms_found = <<>>
              /\ ~lookups[i].raised =>
                    /\ lookups[i].entry.success
                    /\ lookups[i].entry.count = Len(lookups[i].entry.platforms_found)
        /\ (pc = "looping" /\ Len(lookups) < Len(emails)) => ENABLED BeginLookup
        /\ pc = "lookup" => (ENABLED LookupReturns /\ ENABLED LookupRaises)
        /\ pc = "done" =>
              /\ Len(lookups) = Len(emails)
              /\ response[1].success
              /\ response[1].total_emails = Len(emails)
              /\ DOMAIN response[1].results = {emails[i] : i \in 1..Len(emails)}
              /\ \A e \in DOMAIN response[1].results :
                    response[1].results[e] = lookups[LastLookup(e)].entry

\* C15 witness: a batch of 5 addresses with a repeated address has returned;
\* its second lookup raised and the lookups after it succeeded.
C15_Witness ==
    /\ path = "batch" /\ pc = "done"
    /\ Len(emails) = 5
    /\ lookups[2].raised
    /\ \A i \in 3..5 : ~lookups[i].raised
    /\ response[1].total_emails = 5
    /\ Cardinality(DOMAIN response[1].results) = 2

====
